---- MODULE Spec2Model ----
(***************************************************************************)
(* The text-embedding service of ml-serving-comparison: one shared         *)
(* EmbeddingModel wrapper (shared/model.py) served by three adapters, a    *)
(* gRPC servicer (grpc_api/server.py), a FastAPI REST application          *)
(* (rest_api/main.py) and a Strawberry GraphQL schema                      *)
(* (graphql_api/schema.py, graphql_api/main.py), each with its own         *)
(* Prometheus counters.                                                    *)
(*                                                                         *)
(* A handler is one action.  The REST handlers are `async def` without an  *)
(* await and the GraphQL resolvers are plain functions run on the event    *)
(* loop, so each runs to completion; a gRPC handler shares only the        *)
(* counters with its neighbours, and a Prometheus increment is atomic.     *)
(* What a handler computes is an operator (a pure function of the request, *)
(* of the request's faults and of the clock); the action applies it to     *)
(* the counters and records the exchange in `last`.                        *)
(*                                                                         *)
(* The SentenceTransformer is outside the repository.  Its encode returns  *)
(* one vector per text, in the order given, or raises; its name and its    *)
(* dimension are read off the loaded model and do not raise.  In a        *)
(* handler two statements can raise: the call of embed / embed_batch, and  *)
(* the construction of the response message from what it returned.  Both  *)
(* stand inside the handler's try block (where it has one).                *)
(***************************************************************************)
EXTENDS Integers, Sequences, FiniteSets, TLC

VARIABLES
    grpcCount,      \* grpc_api_requests_total, by <<method, status>>
    grpcLatency,    \* grpc_api_request_duration_seconds: observations by method
    grpcInference,  \* grpc_api_inference_duration_seconds: observations
    restCount,      \* rest_api_requests_total, by <<method, endpoint, status>>
    restLatency,    \* rest_api_request_duration_seconds: observations
    restInference,  \* rest_api_inference_duration_seconds: observations
    gqlCount,       \* graphql_api_requests_total, by <<endpoint, status>>
    last,           \* the last exchange: the request, what the client got, the model calls made
    answered,       \* POST /embed exchanges so far, by the HTTP status the client got
    handled,        \* requests handled so far, all adapters
    loop,           \* the event loop of the REST and of the GraphQL process
    boot,           \* each process's start-up: where it is, loads made, listeners open
    pool            \* the gRPC server's worker threads and the RPCs they run

vars == <<grpcCount, grpcLatency, grpcInference, restCount, restLatency,
          restInference, gqlCount, last, answered, handled, loop, boot, pool>>

\* the state of the processes themselves, left alone while a request is handled whole
procVars == <<loop, boot, pool>>

----------------------------------------------------------------------------
(* Bounds of the model *)

\* requests handled in one behaviour
MaxReq == 2
\* longest batch a client sends
MaxBatch == 2
\* worker threads of the gRPC server (the program runs 10)
MaxWorkers == 2
\* length of an embedding vector (384 for all-MiniLM-L6-v2)
Dim == 2

\* the texts clients send; "" is the empty text
Texts == {"", "a", "b"}
\* the batches clients send; << >> is the empty list
Batches == UNION {[1..n -> Texts] : n \in 0..MaxBatch}
\* what the encoder does on one call: it returns, or it raises with this message
Outcomes == {"ok", "CUDA out of memory"}
\* what the clock measures around the model call, in milliseconds (one reading
\* stands for all: no handler branches on it)
Durations == {7}
\* what the construction of the response message does: it completes, or it
\* raises with this message
Builds == {"ok", "bad response value"}
\* one request's faults: the encoder's outcome and the construction's; the
\* response is not constructed once the encoder has raised
Faults == {f \in Outcomes \X Builds : f[1] = "ok" \/ f[2] = "ok"}

----------------------------------------------------------------------------
(* shared/model.py: EmbeddingModel *)

\* __init__: the default model name
model_name == "all-MiniLM-L6-v2"

\* SentenceTransformer.encode on one text: a vector of Dim numbers, fixed by the text
TextCode(text) == CASE text = "" -> 0 [] text = "a" -> 10 [] text = "b" -> 20
Encode(text) == [i \in 1..Dim |-> TextCode(text) + i]

Returned(v) == [raised |-> FALSE, value |-> v, error |-> ""]
Raised(msg) == [raised |-> TRUE, value |-> << >>, error |-> msg]

\* embed with a check of its own: raises on the empty text
embed_RejectsEmpty(text, outcome) ==
    IF text = "" THEN Raised("InvalidArgument")
    ELSE IF outcome = "ok" THEN Returned(Encode(text)) ELSE Raised(outcome)

\* embed: no check of the text; the encoder's result, or its exception
embed(text, outcome) ==
    IF outcome = "ok" THEN Returned(Encode(text)) ELSE Raised(outcome)

\* embed_batch that loses the last text of a longer batch
embed_batch_Truncated(texts, outcome) ==
    IF outcome = "ok"
    THEN Returned([i \in 1..(IF Len(texts) > 1 THEN Len(texts) - 1 ELSE Len(texts))
                     |-> Encode(texts[i])])
    ELSE Raised(outcome)

\* embed_batch: no check of the list; one vector per text, in the order given
embed_batch(texts, outcome) ==
    IF outcome = "ok"
    THEN Returned([i \in 1..Len(texts) |-> Encode(texts[i])])
    ELSE Raised(outcome)

\* get_embedding_dimension: an accessor of the loaded model
get_embedding_dimension == Dim

----------------------------------------------------------------------------
(* Counters and histograms (prometheus_client) *)

Inc(counter, label) == [counter EXCEPT ![label] = @ + 1]

\* what a handler did to its process's metrics: the counter labels incremented
\* and the observations made
Metrics(labels, latency, inference) ==
    [labels |-> labels, latency |-> latency, inference |-> inference]

RECURSIVE IncAll(_, _)
IncAll(counter, labels) ==
    IF labels = << >> THEN counter
    ELSE IncAll(Inc(counter, Head(labels)), Tail(labels))

----------------------------------------------------------------------------
(* grpc_api/server.py: EmbeddingServicer *)

GrpcMethods == {"Embed", "EmbedBatch", "HealthCheck"}
GrpcStatus == {"OK", "INVALID_ARGUMENT", "INTERNAL"}
GrpcLabels == GrpcMethods \X GrpcStatus

\* embedding_pb2.EmbedResponse(), BatchEmbedResponse(), HealthCheckResponse(): every field at its default
EmptyEmbedResponse == [embedding |-> << >>, dimension |-> 0, inference_time_ms |-> 0]
EmptyBatchEmbedResponse ==
    [embeddings |-> << >>, count |-> 0, dimension |-> 0, inference_time_ms |-> 0]
EmptyHealthCheckResponse == [status |-> "", model |-> "", embedding_dimension |-> 0]

\* embedding_pb2.EmbeddingVector(values=emb)
EmbeddingVector(emb) == [values |-> emb]

\* what an RPC ends with
Rpc(code, details, response, calls, metrics) ==
    [code |-> code, details |-> details, response |-> response,
     calls |-> calls, metrics |-> metrics]

\* Embed without the check of request.text
Embed_NoEmptyCheck(text, outcome, build, ms) ==
    LET r == embed(text, outcome) IN
    IF r.raised
    THEN Rpc("INTERNAL", r.error, EmptyEmbedResponse, 1,
             Metrics(<< <<"Embed", "INTERNAL">> >>, 0, 0))
    ELSE IF build # "ok"
    THEN Rpc("INTERNAL", build, EmptyEmbedResponse, 1,
             Metrics(<< <<"Embed", "OK">>, <<"Embed", "INTERNAL">> >>, 1, 1))
    ELSE Rpc("OK", "",
             [embedding |-> r.value,
              dimension |-> get_embedding_dimension,
              inference_time_ms |-> ms],
             1, Metrics(<< <<"Embed", "OK">> >>, 1, 1))

\* Embed leaving a failed model call or response out of the counter
Embed_FailureUncounted(text, outcome, build, ms) ==
    IF text = ""
    THEN Rpc("INVALID_ARGUMENT", "Text cannot be empty", EmptyEmbedResponse, 0,
             Metrics(<< <<"Embed", "INVALID_ARGUMENT">> >>, 0, 0))
    ELSE IF embed(text, outcome).raised
    THEN Rpc("INTERNAL", embed(text, outcome).error, EmptyEmbedResponse, 1,
             Metrics(<< >>, 0, 0))
    ELSE IF build # "ok"
    THEN Rpc("INTERNAL", build, EmptyEmbedResponse, 1,
             Metrics(<< <<"Embed", "OK">> >>, 1, 1))
    ELSE Rpc("OK", "",
             [embedding |-> embed(text, outcome).value,
              dimension |-> get_embedding_dimension,
              inference_time_ms |-> ms],
             1, Metrics(<< <<"Embed", "OK">> >>, 1, 1))

\* Embed(request, context)
Embed(text, outcome, build, ms) ==
    IF text = ""
    THEN Rpc("INVALID_ARGUMENT", "Text cannot be empty", EmptyEmbedResponse, 0,
             Metrics(<< <<"Embed", "INVALID_ARGUMENT">> >>, 0, 0))
    ELSE LET r == embed(text, outcome) IN
         IF r.raised
         THEN Rpc("INTERNAL", r.error, EmptyEmbedResponse, 1,
                  Metrics(<< <<"Embed", "INTERNAL">> >>, 0, 0))
         ELSE IF build # "ok"
         THEN Rpc("INTERNAL", build, EmptyEmbedResponse, 1,
                  Metrics(<< <<"Embed", "OK">>, <<"Embed", "INTERNAL">> >>, 1, 1))
         ELSE Rpc("OK", "",
                  [embedding |-> r.value,
                   dimension |-> get_embedding_dimension,
                   inference_time_ms |-> ms],
                  1, Metrics(<< <<"Embed", "OK">> >>, 1, 1))

\* EmbedBatch whose except branch forgets context.set_code
EmbedBatch_CodeNotSet(texts, outcome, build, ms) ==
    IF texts = << >>
    THEN Rpc("INVALID_ARGUMENT", "Texts list cannot be empty", EmptyBatchEmbedResponse, 0,
             Metrics(<< <<"EmbedBatch", "INVALID_ARGUMENT">> >>, 0, 0))
    ELSE LET r == embed_batch(texts, outcome) IN
         IF r.raised
         THEN Rpc("OK", r.error, EmptyBatchEmbedResponse, 1,
                  Metrics(<< <<"EmbedBatch", "INTERNAL">> >>, 0, 0))
         ELSE IF build # "ok"
         THEN Rpc("INTERNAL", build, EmptyBatchEmbedResponse, 1,
                  Metrics(<< <<"EmbedBatch", "OK">>, <<"EmbedBatch", "INTERNAL">> >>, 1, 1))
         ELSE Rpc("OK", "",
                  [embeddings |-> [i \in 1..Len(r.value) |-> EmbeddingVector(r.value[i])],
                   count |-> Len(r.value),
                   dimension |-> get_embedding_dimension,
                   inference_time_ms |-> ms],
                  1, Metrics(<< <<"EmbedBatch", "OK">> >>, 1, 1))

\* EmbedBatch(request, context)
EmbedBatch(texts, outcome, build, ms) ==
    IF texts = << >>
    THEN Rpc("INVALID_ARGUMENT", "Texts list cannot be empty", EmptyBatchEmbedResponse, 0,
             Metrics(<< <<"EmbedBatch", "INVALID_ARGUMENT">> >>, 0, 0))
    ELSE LET r == embed_batch(texts, outcome) IN
         IF r.raised
         THEN Rpc("INTERNAL", r.error, EmptyBatchEmbedResponse, 1,
                  Metrics(<< <<"EmbedBatch", "INTERNAL">> >>, 0, 0))
         ELSE IF build # "ok"
         THEN Rpc("INTERNAL", build, EmptyBatchEmbedResponse, 1,
                  Metrics(<< <<"EmbedBatch", "OK">>, <<"EmbedBatch", "INTERNAL">> >>, 1, 1))
         ELSE Rpc("OK", "",
                  [embeddings |-> [i \in 1..Len(r.value) |-> EmbeddingVector(r.value[i])],
                   count |-> Len(r.value),
                   dimension |-> get_embedding_dimension,
                   inference_time_ms |-> ms],
                  1, Metrics(<< <<"EmbedBatch", "OK">> >>, 1, 1))

\* HealthCheck(request, context); nothing in its try block raises, the model
\* being loaded, so its except branch is never taken
HealthCheck ==
    Rpc("OK", "",
        [status |-> "healthy", model |-> model_name,
         embedding_dimension |-> get_embedding_dimension],
        0, Metrics(<< <<"HealthCheck", "OK">> >>, 0, 0))

\* the exchange `last` records: the request (op, text, texts), the faults of
\* this request (fault: what the encoder and the construction of the response
\* were going to do), what the client got (status, details, errors, body) and
\* the number of calls of embed/embed_batch made for it
Exchange(adapter, op, text, texts, fault, status, details, errors, body, calls) ==
    [adapter |-> adapter, op |-> op, text |-> text, texts |-> texts,
     outcome |-> fault[1], build |-> fault[2], status |-> status,
     details |-> details, errors |-> errors, body |-> body, calls |-> calls]

NoFault == <<"ok", "ok">>

GrpcCall(op, text, texts, fault, rpc) ==
    /\ handled < MaxReq
    /\ handled' = handled + 1
    /\ grpcCount' = IncAll(grpcCount, rpc.metrics.labels)
    /\ grpcLatency' = [grpcLatency EXCEPT ![op] = @ + rpc.metrics.latency]
    /\ grpcInference' = grpcInference + rpc.metrics.inference
    /\ last' = Exchange("grpc", op, text, texts, fault, rpc.code, rpc.details,
                        << >>, rpc.response, rpc.calls)
    /\ UNCHANGED <<restCount, restLatency, restInference, gqlCount, answered>>

GrpcEmbed ==
    /\ UNCHANGED procVars
    /\ \E text \in Texts, fault \in Faults, ms \in Durations :
        GrpcCall("Embed", text, << >>, fault, Embed(text, fault[1], fault[2], ms))

GrpcEmbedBatch ==
    /\ UNCHANGED procVars
    /\ \E texts \in Batches, fault \in Faults, ms \in Durations :
        GrpcCall("EmbedBatch", "", texts, fault,
                EmbedBatch(texts, fault[1], fault[2], ms))

GrpcHealthCheck ==
    /\ UNCHANGED procVars
    /\ GrpcCall("HealthCheck", "", << >>, NoFault, HealthCheck)

----------------------------------------------------------------------------
(* rest_api/main.py *)

RestEndpoints == {"/embed", "/embed/batch"}
RestLabels ==
    ({"POST"} \X RestEndpoints \X {"200", "500"}) \cup {<<"GET", "/health", "200">>}
RestLatencyLabels == {"POST"} \X RestEndpoints

\* what an HTTP request ends with
Http(status, body, calls, metrics) ==
    [status |-> status, body |-> body, calls |-> calls, metrics |-> metrics]

NoMetrics == Metrics(<< >>, 0, 0)

\* FastAPI's answer to a body that fails the request model: 422, the handler is not entered
ValidationError == Http("422", [detail |-> "validation error"], 0, NoMetrics)

\* EmbedRequest without min_length
EmbedRequest_NoMinLength(text) == TRUE

\* EmbedRequest: text: str = Field(..., min_length=1)
EmbedRequest(text) == text # ""

\* BatchEmbedRequest: texts: List[str] = Field(..., min_items=1)
BatchEmbedRequest(texts) == Len(texts) >= 1

\* embed_text trying the model a second time when the first call raises
embed_text_Retry(text, outcome, build, ms) ==
    LET r == embed(text, outcome) IN
    IF r.raised
    THEN Http("200",
              [embedding |-> embed(text, "ok").value,
               dimension |-> get_embedding_dimension,
               inference_time_ms |-> ms],
              2, Metrics(<< <<"POST", "/embed", "200">> >>, 1, 1))
    ELSE IF build # "ok"
    THEN Http("500", [detail |-> build], 1,
              Metrics(<< <<"POST", "/embed", "200">>, <<"POST", "/embed", "500">> >>, 1, 1))
    ELSE Http("200",
              [embedding |-> r.value,
               dimension |-> get_embedding_dimension,
               inference_time_ms |-> ms],
              1, Metrics(<< <<"POST", "/embed", "200">> >>, 1, 1))

\* embed_text(request), entered with a request that passed EmbedRequest
embed_text(text, outcome, build, ms) ==
    LET r == embed(text, outcome) IN
    IF r.raised
    THEN Http("500", [detail |-> r.error], 1,
              Metrics(<< <<"POST", "/embed", "500">> >>, 0, 0))
    ELSE IF build # "ok"
    THEN Http("500", [detail |-> build], 1,
              Metrics(<< <<"POST", "/embed", "200">>, <<"POST", "/embed", "500">> >>, 1, 1))
    ELSE Http("200",
              [embedding |-> r.value,
               dimension |-> get_embedding_dimension,
               inference_time_ms |-> ms],
              1, Metrics(<< <<"POST", "/embed", "200">> >>, 1, 1))

\* embed_batch of the REST application returning the vectors last to first
rest_embed_batch_Reversed(texts, outcome, build, ms) ==
    LET r == embed_batch(texts, outcome) IN
    IF r.raised
    THEN Http("500", [detail |-> r.error], 1,
              Metrics(<< <<"POST", "/embed/batch", "500">> >>, 0, 0))
    ELSE IF build # "ok"
    THEN Http("500", [detail |-> build], 1,
              Metrics(<< <<"POST", "/embed/batch", "200">>, <<"POST", "/embed/batch", "500">> >>, 1, 1))
    ELSE Http("200",
              [embeddings |-> [i \in 1..Len(r.value) |-> r.value[Len(r.value) + 1 - i]],
               count |-> Len(r.value),
               dimension |-> get_embedding_dimension,
               inference_time_ms |-> ms],
              1, Metrics(<< <<"POST", "/embed/batch", "200">> >>, 1, 1))

\* embed_batch(request) of the REST application, entered with a request that
\* passed BatchEmbedRequest
rest_embed_batch(texts, outcome, build, ms) ==
    LET r == embed_batch(texts, outcome) IN
    IF r.raised
    THEN Http("500", [detail |-> r.error], 1,
              Metrics(<< <<"POST", "/embed/batch", "500">> >>, 0, 0))
    ELSE IF build # "ok"
    THEN Http("500", [detail |-> build], 1,
              Metrics(<< <<"POST", "/embed/batch", "200">>, <<"POST", "/embed/batch", "500">> >>, 1, 1))
    ELSE Http("200",
              [embeddings |-> r.value,
               count |-> Len(r.value),
               dimension |-> get_embedding_dimension,
               inference_time_ms |-> ms],
              1, Metrics(<< <<"POST", "/embed/batch", "200">> >>, 1, 1))

\* POST /embed: the body is validated against EmbedRequest, then embed_text runs
PostEmbed(text, outcome, build, ms) ==
    IF EmbedRequest(text) THEN embed_text(text, outcome, build, ms) ELSE ValidationError

\* POST /embed/batch: validated against BatchEmbedRequest, then embed_batch runs
PostEmbedBatch(texts, outcome, build, ms) ==
    IF BatchEmbedRequest(texts) THEN rest_embed_batch(texts, outcome, build, ms)
    ELSE ValidationError

\* health_check()
health_check ==
    Http("200",
         [status |-> "healthy", model |-> model_name,
          embedding_dimension |-> get_embedding_dimension],
         0, Metrics(<< <<"GET", "/health", "200">> >>, 0, 0))

\* metrics(): generate_latest(), the registry as it stands
metrics(count, latency, inference) ==
    Http("200",
         [requests_total |-> count, request_duration |-> latency,
          inference_duration |-> inference],
         0, NoMetrics)

RestCall(op, text, texts, fault, http) ==
    /\ handled < MaxReq
    /\ handled' = handled + 1
    /\ restCount' = IncAll(restCount, http.metrics.labels)
    /\ restLatency' = IF http.metrics.latency = 0 THEN restLatency
                      ELSE [restLatency EXCEPT ![<<"POST", op>>] = @ + http.metrics.latency]
    /\ restInference' = restInference + http.metrics.inference
    /\ answered' = IF op = "/embed" THEN [answered EXCEPT ![http.status] = @ + 1]
                   ELSE answered
    /\ last' = Exchange("rest", op, text, texts, fault, http.status, "", << >>,
                        http.body, http.calls)
    /\ UNCHANGED <<grpcCount, grpcLatency, grpcInference, gqlCount>>

RestEmbed ==
    /\ UNCHANGED procVars
    /\ \E text \in Texts, fault \in Faults, ms \in Durations :
        RestCall("/embed", text, << >>, fault, PostEmbed(text, fault[1], fault[2], ms))

RestEmbedBatch ==
    /\ UNCHANGED procVars
    /\ \E texts \in Batches, fault \in Faults, ms \in Durations :
        RestCall("/embed/batch", "", texts, fault,
                PostEmbedBatch(texts, fault[1], fault[2], ms))

RestHealth ==
    /\ UNCHANGED procVars
    /\ RestCall("/health", "", << >>, NoFault, health_check)

RestMetrics ==
    /\ UNCHANGED procVars
    /\ RestCall("/metrics", "", << >>, NoFault, metrics(restCount, restLatency, restInference))

----------------------------------------------------------------------------
(* graphql_api/schema.py and graphql_api/main.py *)

GqlLabels == {<<"/health", "200">>}

\* what POST /graphql ends with: always HTTP 200; a resolver's exception is an
\* entry of `errors` and leaves no data
Gql(errors, data, calls) ==
    [status |-> "200", errors |-> errors, data |-> data, calls |-> calls]

NoData == [data |-> "null"]

\* Mutation.embed rounding the vector it returns
Mutation_embed_Rounded(text, outcome, build, ms) ==
    IF text = ""
    THEN Gql(<<"Text cannot be empty">>, NoData, 0)
    ELSE LET r == embed(text, outcome) IN
         IF r.raised
         THEN Gql(<<r.error>>, NoData, 1)
         ELSE IF build # "ok"
         THEN Gql(<<build>>, NoData, 1)
         ELSE Gql(<< >>,
                  [embedding |-> [i \in 1..Len(r.value) |-> (r.value[i] \div 10) * 10],
                   dimension |-> get_embedding_dimension,
                   inference_time_ms |-> ms],
                  1)

\* Mutation.embed(input)
Mutation_embed(text, outcome, build, ms) ==
    IF text = ""
    THEN Gql(<<"Text cannot be empty">>, NoData, 0)
    ELSE LET r == embed(text, outcome) IN
         IF r.raised
         THEN Gql(<<r.error>>, NoData, 1)
         ELSE IF build # "ok"
         THEN Gql(<<build>>, NoData, 1)
         ELSE Gql(<< >>,
                  [embedding |-> r.value,
                   dimension |-> get_embedding_dimension,
                   inference_time_ms |-> ms],
                  1)

\* Mutation.embed_batch without the check of input.texts
Mutation_embed_batch_NoCheck(texts, outcome, build, ms) ==
    LET r == embed_batch(texts, outcome) IN
    IF r.raised
    THEN Gql(<<r.error>>, NoData, 1)
    ELSE IF build # "ok"
    THEN Gql(<<build>>, NoData, 1)
    ELSE Gql(<< >>,
             [embeddings |-> r.value,
              count |-> Len(r.value),
              dimension |-> get_embedding_dimension,
              inference_time_ms |-> ms],
             1)

\* Mutation.embed_batch(input)
Mutation_embed_batch(texts, outcome, build, ms) ==
    IF texts = << >>
    THEN Gql(<<"Texts list cannot be empty">>, NoData, 0)
    ELSE LET r == embed_batch(texts, outcome) IN
         IF r.raised
         THEN Gql(<<r.error>>, NoData, 1)
         ELSE IF build # "ok"
         THEN Gql(<<build>>, NoData, 1)
         ELSE Gql(<< >>,
                  [embeddings |-> r.value,
                   count |-> Len(r.value),
                   dimension |-> get_embedding_dimension,
                   inference_time_ms |-> ms],
                  1)

\* Query.health with the dimension written out instead of asked of the model
Query_health_Hardcoded ==
    Gql(<< >>,
        [status |-> "healthy", model |-> model_name, embedding_dimension |-> 384],
        0)

\* Query.health
Query_health ==
    Gql(<< >>,
        [status |-> "healthy", model |-> model_name,
         embedding_dimension |-> get_embedding_dimension],
        0)

\* a query or mutation through the GraphQLRouter: no counter of main.py is touched
GqlCall(op, text, texts, fault, gql) ==
    /\ handled < MaxReq
    /\ handled' = handled + 1
    /\ last' = Exchange("graphql", op, text, texts, fault, gql.status, "", gql.errors,
                        gql.data, gql.calls)
    /\ UNCHANGED <<grpcCount, grpcLatency, grpcInference, restCount, restLatency,
                   restInference, gqlCount, answered>>

GqlEmbed ==
    /\ UNCHANGED procVars
    /\ \E text \in Texts, fault \in Faults, ms \in Durations :
        GqlCall("embed", text, << >>, fault, Mutation_embed(text, fault[1], fault[2], ms))

GqlEmbedBatch ==
    /\ UNCHANGED procVars
    /\ \E texts \in Batches, fault \in Faults, ms \in Durations :
        GqlCall("embedBatch", "", texts, fault,
                Mutation_embed_batch(texts, fault[1], fault[2], ms))

GqlHealth ==
    /\ UNCHANGED procVars
    /\ GqlCall("health", "", << >>, NoFault, Query_health)

\* main.py: health_check(), GET /health of the GraphQL application
GqlMainHealthCall ==
    /\ handled < MaxReq
    /\ handled' = handled + 1
    /\ gqlCount' = Inc(gqlCount, <<"/health", "200">>)
    /\ last' = Exchange("graphql", "/health", "", << >>, NoFault, "200", "", << >>,
                        [status |-> "healthy", api |-> "graphql"], 0)
    /\ UNCHANGED <<grpcCount, grpcLatency, grpcInference, restCount, restLatency,
                   restInference, answered>>

GqlMainHealth ==
    /\ UNCHANGED procVars
    /\ GqlMainHealthCall

----------------------------------------------------------------------------
(* The three processes, each with its model loaded and its counters at zero *)

\* the asyncio event loop of a FastAPI process: requests that have arrived and
\* the handler it is running, if that handler is inside a model call
LoopAdapters == {"rest", "graphql"}
NoTask == [op |-> "none", text |-> "", texts |-> << >>]
IdleLoop == [pending |-> << >>, running |-> NoTask]

\* a process and its listeners: the gRPC process has the RPC port and the
\* Prometheus metrics port, a FastAPI process has its HTTP port
Processes == {"grpc", "rest", "graphql"}
Listeners(p) == IF p = "grpc" THEN {"rpc:50051", "metrics:8001"} ELSE {"http"}
Serving(p) == [pc |-> "serving", loads |-> 1, open |-> Listeners(p)]

\* the worker threads of grpc.server: the RPC each runs, the labels it has still
\* to increment, the observations that go with its OK label, and the increments
\* it has made; RPCs completed by method, the
\* increments they made beyond their first, and whether two RPCs ever overlapped
Workers == 1..MaxWorkers
IdleWorker == [op |-> "none", todo |-> << >>, obs |-> 0, incs |-> 0]
IdlePool ==
    [workers |-> [w \in Workers |-> IdleWorker],
     completed |-> [m \in GrpcMethods |-> 0],
     extra |-> [m \in GrpcMethods |-> 0],
     overlapped |-> FALSE]

NoExchange == Exchange("none", "none", "", << >>, NoFault, "", "", << >>, [none |-> TRUE], 0)

Init ==
    /\ grpcCount = [l \in GrpcLabels |-> 0]
    /\ grpcLatency = [m \in GrpcMethods |-> 0]
    /\ grpcInference = 0
    /\ restCount = [l \in RestLabels |-> 0]
    /\ restLatency = [l \in RestLatencyLabels |-> 0]
    /\ restInference = 0
    /\ gqlCount = [l \in GqlLabels |-> 0]
    /\ last = NoExchange
    /\ answered = [s \in {"200", "422", "500"} |-> 0]
    /\ handled = 0
    /\ loop = [a \in LoopAdapters |-> IdleLoop]
    /\ boot = [p \in Processes |-> Serving(p)]
    /\ pool = IdlePool

Next ==
    \/ GrpcEmbed
    \/ GrpcEmbedBatch
    \/ GrpcHealthCheck
    \/ RestEmbed
    \/ RestEmbedBatch
    \/ RestHealth
    \/ RestMetrics
    \/ GqlEmbed
    \/ GqlEmbedBatch
    \/ GqlHealth
    \/ GqlMainHealth

Spec == Init /\ [][Next]_vars

----------------------------------------------------------------------------
(* One FastAPI process under load: requests arrive while a handler runs. The  *)
(* handlers are coroutines without an await (rest_api/main.py) or plain        *)
(* functions called by the GraphQL executor (graphql_api/schema.py), so the    *)
(* event loop runs a handler from its first statement to its return.           *)

LoopOps(a) ==
    IF a = "rest" THEN {"/embed", "/embed/batch", "/health", "/metrics"}
    ELSE {"embed", "embedBatch", "health", "/health"}

Tasks(a) ==
    {[op |-> op, text |-> t, texts |-> << >>] : op \in LoopOps(a) \cap {"/embed", "embed"},
                                                  t \in Texts}
    \cup
    {[op |-> op, text |-> "", texts |-> b] : op \in LoopOps(a) \cap {"/embed/batch", "embedBatch"},
                                              b \in Batches}
    \cup
    {[op |-> op, text |-> "", texts |-> << >>] :
        op \in LoopOps(a) \cap {"/health", "/metrics", "health"}}

\* the handler of a task reaches model.embed / model.embed_batch
ReachesModel(a, task) ==
    CASE task.op = "/embed" -> EmbedRequest(task.text)
      [] task.op = "/embed/batch" -> BatchEmbedRequest(task.texts)
      [] task.op = "embed" -> Mutation_embed(task.text, "ok", "ok", 0).calls = 1
      [] task.op = "embedBatch" -> Mutation_embed_batch(task.texts, "ok", "ok", 0).calls = 1
      [] OTHER -> FALSE

\* the handler of a task, run to its return
LoopFinish(a, task, fault, ms) ==
    CASE task.op = "/embed" ->
            RestCall("/embed", task.text, << >>, fault,
                     PostEmbed(task.text, fault[1], fault[2], ms))
      [] task.op = "/embed/batch" ->
            RestCall("/embed/batch", "", task.texts, fault,
                     PostEmbedBatch(task.texts, fault[1], fault[2], ms))
      [] task.op = "/metrics" ->
            RestCall("/metrics", "", << >>, fault,
                     metrics(restCount, restLatency, restInference))
      [] task.op = "/health" /\ a = "rest" ->
            RestCall("/health", "", << >>, fault, health_check)
      [] task.op = "/health" /\ a = "graphql" -> GqlMainHealthCall
      [] task.op = "embed" ->
            GqlCall("embed", task.text, << >>, fault,
                    Mutation_embed(task.text, fault[1], fault[2], ms))
      [] task.op = "embedBatch" ->
            GqlCall("embedBatch", "", task.texts, fault,
                    Mutation_embed_batch(task.texts, fault[1], fault[2], ms))
      [] task.op = "health" -> GqlCall("health", "", << >>, fault, Query_health)

\* requests that have arrived and are not answered yet
Waiting(a) == Len(loop[a].pending) + (IF loop[a].running = NoTask THEN 0 ELSE 1)

\* a request arrives on the process's socket
LoopArrive ==
    \E a \in LoopAdapters : \E task \in Tasks(a) :
        /\ handled + Waiting("rest") + Waiting("graphql") < MaxReq
        /\ loop' = [loop EXCEPT ![a].pending = Append(@, task)]
        /\ UNCHANGED <<grpcCount, grpcLatency, grpcInference, restCount, restLatency,
                       restInference, gqlCount, last, answered, handled, boot, pool>>

\* the loop runs the next request's handler up to its model call
LoopStart ==
    \E a \in LoopAdapters :
        /\ loop[a].running = NoTask
        /\ loop[a].pending # << >>
        /\ ReachesModel(a, Head(loop[a].pending))
        /\ loop' = [loop EXCEPT ![a] = [pending |-> Tail(@.pending),
                                        running |-> Head(@.pending)]]
        /\ UNCHANGED <<grpcCount, grpcLatency, grpcInference, restCount, restLatency,
                       restInference, gqlCount, last, answered, handled, boot, pool>>

\* the loop runs the handler of a request that makes no model call, to its return
LoopServeOn(a) ==
    /\ loop[a].running = NoTask
    /\ loop[a].pending # << >>
    /\ ~ReachesModel(a, Head(loop[a].pending))
    /\ LoopFinish(a, Head(loop[a].pending), NoFault, 0)
    /\ loop' = [loop EXCEPT ![a].pending = Tail(@)]
    /\ UNCHANGED <<boot, pool>>

LoopServe == \E a \in LoopAdapters : LoopServeOn(a)

\* the model call returns or raises and the handler runs on to its return
LoopReturn ==
    \E a \in LoopAdapters, fault \in Faults, ms \in Durations :
        /\ loop[a].running # NoTask
        /\ LoopFinish(a, loop[a].running, fault, ms)
        /\ loop' = [loop EXCEPT ![a].running = NoTask]
        /\ UNCHANGED <<boot, pool>>

LoopNext ==
    \/ LoopArrive
    \/ LoopStart
    \/ LoopServe
    \/ LoopReturn

SpecLoop == Init /\ [][LoopNext]_vars

----------------------------------------------------------------------------
(* The start of the three processes: grpc_api/server.py serve(), and the      *)
(* import of rest_api/main.py and of graphql_api/schema.py by their servers.  *)

NotStarted == [pc |-> "start", loads |-> 0, open |-> {}]
Exited(b) == [pc |-> "exited", loads |-> b.loads, open |-> {}]

\* EmbeddingModel(): SentenceTransformer(model_name) returns or raises
Loads == {"ok", "model not found"}

StartupInit ==
    /\ grpcCount = [l \in GrpcLabels |-> 0]
    /\ grpcLatency = [m \in GrpcMethods |-> 0]
    /\ grpcInference = 0
    /\ restCount = [l \in RestLabels |-> 0]
    /\ restLatency = [l \in RestLatencyLabels |-> 0]
    /\ restInference = 0
    /\ gqlCount = [l \in GqlLabels |-> 0]
    /\ last = NoExchange
    /\ answered = [s \in {"200", "422", "500"} |-> 0]
    /\ handled = 0
    /\ loop = [a \in LoopAdapters |-> IdleLoop]
    /\ boot = [p \in Processes |-> NotStarted]
    /\ pool = IdlePool

\* serve(): start_http_server(8001)
StartMetricsServer ==
    /\ boot["grpc"].pc = "start"
    /\ boot' = [boot EXCEPT !["grpc"] = [pc |-> "metrics_up", loads |-> 0,
                                         open |-> {"metrics:8001"}]]
    /\ UNCHANGED <<grpcCount, grpcLatency, grpcInference, restCount, restLatency,
                   restInference, gqlCount, last, answered, handled, loop, pool>>

\* serve(): grpc.server(...), EmbeddingServicer() and with it EmbeddingModel();
\* an exception leaves serve() and the process ends
CreateServicer ==
    \E load \in Loads :
        /\ boot["grpc"].pc = "metrics_up"
        /\ boot' = [boot EXCEPT !["grpc"] =
                        IF load = "ok"
                        THEN [pc |-> "loaded", loads |-> @.loads + 1, open |-> @.open]
                        ELSE Exited(@)]
        /\ UNCHANGED <<grpcCount, grpcLatency, grpcInference, restCount, restLatency,
                       restInference, gqlCount, last, answered, handled, loop, pool>>

\* serve(): server.add_insecure_port('[::]:50051'); server.start()
StartRpcServer ==
    /\ boot["grpc"].pc = "loaded"
    /\ boot' = [boot EXCEPT !["grpc"] = [pc |-> "serving", loads |-> @.loads,
                                         open |-> @.open \cup {"rpc:50051"}]]
    /\ UNCHANGED <<grpcCount, grpcLatency, grpcInference, restCount, restLatency,
                   restInference, gqlCount, last, answered, handled, loop, pool>>

\* the server imports the application module: model = EmbeddingModel() runs at
\* import, and an exception ends the process before it binds its port
ImportApp ==
    \E p \in LoopAdapters, load \in Loads :
        /\ boot[p].pc = "start"
        /\ boot' = [boot EXCEPT ![p] =
                        IF load = "ok"
                        THEN [pc |-> "loaded", loads |-> @.loads + 1, open |-> {}]
                        ELSE Exited(@)]
        /\ UNCHANGED <<grpcCount, grpcLatency, grpcInference, restCount, restLatency,
                       restInference, gqlCount, last, answered, handled, loop, pool>>

\* the server binds its HTTP port and serves the imported application
ServeApp ==
    \E p \in LoopAdapters :
        /\ boot[p].pc = "loaded"
        /\ boot' = [boot EXCEPT ![p] = [pc |-> "serving", loads |-> @.loads,
                                        open |-> {"http"}]]
        /\ UNCHANGED <<grpcCount, grpcLatency, grpcInference, restCount, restLatency,
                       restInference, gqlCount, last, answered, handled, loop, pool>>

\* a scrape of the metrics port of the gRPC process, answered by the thread
\* start_http_server started
ScrapeMetricsPort ==
    /\ "metrics:8001" \in boot["grpc"].open
    /\ handled < MaxReq
    /\ handled' = handled + 1
    /\ last' = Exchange("grpc", "/metrics", "", << >>, NoFault, "200", "", << >>,
                        metrics(grpcCount, grpcLatency, grpcInference).body, 0)
    /\ UNCHANGED <<grpcCount, grpcLatency, grpcInference, restCount, restLatency,
                   restInference, gqlCount, answered, loop, boot, pool>>

\* requests on the listeners that are open
RpcOnPort ==
    /\ "rpc:50051" \in boot["grpc"].open
    /\ (GrpcEmbed \/ GrpcHealthCheck)

RestOnPort ==
    /\ "http" \in boot["rest"].open
    /\ (RestEmbed \/ RestHealth)

GraphqlOnPort ==
    /\ "http" \in boot["graphql"].open
    /\ (GqlEmbed \/ GqlMainHealth)

StartupNext ==
    \/ StartMetricsServer
    \/ CreateServicer
    \/ StartRpcServer
    \/ ImportApp
    \/ ServeApp
    \/ ScrapeMetricsPort
    \/ RpcOnPort
    \/ RestOnPort
    \/ GraphqlOnPort

SpecStartup == StartupInit /\ [][StartupNext]_vars

----------------------------------------------------------------------------
(* The gRPC server under concurrent load: grpc.server runs each RPC's handler *)
(* on a thread of its pool, and the handlers' statements interleave. A label's *)
(* inc() is one step: prometheus_client takes the value's lock around it.      *)

\* the handler an RPC runs
PoolRpc(op, text, texts, fault, ms) ==
    CASE op = "Embed" -> Embed(text, fault[1], fault[2], ms)
      [] op = "EmbedBatch" -> EmbedBatch(texts, fault[1], fault[2], ms)
      [] op = "HealthCheck" -> HealthCheck

\* the RPCs a client sends: method, text, texts
PoolRequests ==
    {<<"Embed", t, << >> >> : t \in Texts}
    \cup {<<"EmbedBatch", "", b>> : b \in Batches}
    \cup {<<"HealthCheck", "", << >> >>}

Busy == {w \in Workers : pool.workers[w].op # "none"}

\* a free thread takes an RPC and runs its handler up to the first increment
PoolAccept ==
    \E w \in Workers, req \in PoolRequests, fault \in Faults, ms \in Durations :
        LET rpc == PoolRpc(req[1], req[2], req[3], fault, ms) IN
        /\ pool.workers[w].op = "none"
        /\ handled + Cardinality(Busy) < MaxReq
        /\ pool' = [pool EXCEPT
                      !.workers[w] = [op |-> req[1], todo |-> rpc.metrics.labels,
                                      obs |-> rpc.metrics.latency, incs |-> 0],
                      !.overlapped = @ \/ Busy # {}]
        /\ UNCHANGED <<grpcCount, grpcLatency, grpcInference, restCount, restLatency,
                       restInference, gqlCount, last, answered, handled, loop, boot>>

\* the thread makes its handler's next increment; with the OK label go the two
\* observations that follow it
PoolCount ==
    \E w \in Workers :
        LET wk == pool.workers[w]
            label == Head(wk.todo)
            obs == IF label[2] = "OK" THEN wk.obs ELSE 0 IN
        /\ wk.op # "none"
        /\ wk.todo # << >>
        /\ grpcCount' = Inc(grpcCount, label)
        /\ grpcLatency' = [grpcLatency EXCEPT ![wk.op] = @ + obs]
        /\ grpcInference' = grpcInference + obs
        /\ pool' = [pool EXCEPT !.workers[w] = [op |-> wk.op, todo |-> Tail(wk.todo),
                                                obs |-> wk.obs, incs |-> wk.incs + 1]]
        /\ UNCHANGED <<restCount, restLatency, restInference, gqlCount, last, answered,
                       handled, loop, boot>>

\* the handler returns and the RPC completes
PoolComplete ==
    \E w \in Workers :
        LET wk == pool.workers[w] IN
        /\ wk.op # "none"
        /\ wk.todo = << >>
        /\ handled' = handled + 1
        /\ pool' = [pool EXCEPT
                      !.workers[w] = IdleWorker,
                      !.completed[wk.op] = @ + 1,
                      !.extra[wk.op] = @ + (IF wk.incs > 1 THEN wk.incs - 1 ELSE 0)]
        /\ UNCHANGED <<grpcCount, grpcLatency, grpcInference, restCount, restLatency,
                       restInference, gqlCount, last, answered, loop, boot>>

PoolNext ==
    \/ PoolAccept
    \/ PoolCount
    \/ PoolComplete

SpecPool == Init /\ [][PoolNext]_vars

----------------------------------------------------------------------------
(* The shared model called directly: embed and embed_batch as functions of *)
(* their argument, on every text and every batch, the empty ones included  *)

NoResult == [none |-> TRUE]

PendingCalls ==
    {Exchange("model", "embed", t, << >>, <<o, "ok">>, "pending", "", << >>, NoResult, 0) :
        t \in Texts, o \in Outcomes}
    \cup
    {Exchange("model", "embed_batch", "", b, <<o, "ok">>, "pending", "", << >>, NoResult, 0) :
        b \in Batches, o \in Outcomes}

ContractResult(call, r) ==
    Exchange("model", call.op, call.text, call.texts, <<call.outcome, call.build>>,
             IF r.raised THEN "raised" ELSE "returned", r.error, << >>,
             [value |-> r.value], 1)

ContractInit ==
    /\ grpcCount = [l \in GrpcLabels |-> 0]
    /\ grpcLatency = [m \in GrpcMethods |-> 0]
    /\ grpcInference = 0
    /\ restCount = [l \in RestLabels |-> 0]
    /\ restLatency = [l \in RestLatencyLabels |-> 0]
    /\ restInference = 0
    /\ gqlCount = [l \in GqlLabels |-> 0]
    /\ answered = [s \in {"200", "422", "500"} |-> 0]
    /\ handled = 0
    /\ loop = [a \in LoopAdapters |-> IdleLoop]
    /\ boot = [p \in Processes |-> Serving(p)]
    /\ pool = IdlePool
    /\ last \in PendingCalls

CallEmbed ==
    /\ last.status = "pending"
    /\ last.op = "embed"
    /\ last' = ContractResult(last, embed(last.text, last.outcome))
    /\ handled' = handled + 1
    /\ UNCHANGED <<grpcCount, grpcLatency, grpcInference, restCount, restLatency,
                   restInference, gqlCount, answered>>
    /\ UNCHANGED procVars

CallEmbedBatch ==
    /\ last.status = "pending"
    /\ last.op = "embed_batch"
    /\ last' = ContractResult(last, embed_batch(last.texts, last.outcome))
    /\ handled' = handled + 1
    /\ UNCHANGED <<grpcCount, grpcLatency, grpcInference, restCount, restLatency,
                   restInference, gqlCount, answered>>
    /\ UNCHANGED procVars

NextInput ==
    /\ last.status # "pending"
    /\ handled < MaxReq
    /\ last' \in PendingCalls
    /\ UNCHANGED <<grpcCount, grpcLatency, grpcInference, restCount, restLatency,
                   restInference, gqlCount, answered, handled>>
    /\ UNCHANGED procVars

ContractNext ==
    \/ CallEmbed
    \/ CallEmbedBatch
    \/ NextInput

SpecContract == ContractInit /\ [][ContractNext]_vars

----------------------------------------------------------------------------
(* Properties *)

IsEmbed(x) == <<x.adapter, x.op>> \in {<<"grpc", "Embed">>, <<"rest", "/embed">>, <<"graphql", "embed">>}
IsBatch(x) ==
    <<x.adapter, x.op>> \in
        {<<"grpc", "EmbedBatch">>, <<"rest", "/embed/batch">>, <<"graphql", "embedBatch">>}
IsHealth(x) ==
    <<x.adapter, x.op>> \in {<<"grpc", "HealthCheck">>, <<"rest", "/health">>, <<"graphql", "health">>}

\* the request carried an empty text (single) or an empty list (batch)
EmptyInput(x) == (IsEmbed(x) /\ x.text = "") \/ (IsBatch(x) /\ x.texts = << >>)

\* the protocol's own sign of success
Succeeded(x) ==
    \/ x.adapter = "grpc" /\ x.status = "OK"
    \/ x.adapter = "rest" /\ x.status = "200"
    \/ x.adapter = "graphql" /\ x.status = "200" /\ x.errors = << >>

\* the vectors of a batch response, unwrapped
Vectors(x) ==
    IF x.adapter = "grpc"
    THEN [i \in 1..Len(x.body.embeddings) |-> x.body.embeddings[i].values]
    ELSE x.body.embeddings

\* C1: a gRPC Embed with empty text, and a gRPC EmbedBatch with an empty list,
\* ends INVALID_ARGUMENT with details set and a default response message, and
\* embed/embed_batch is not called for it.
C1_EmptyInputInvalidArgument ==
    (last.adapter = "grpc" /\ EmptyInput(last)) =>
        /\ last.status = "INVALID_ARGUMENT"
        /\ last.details # ""
        /\ last.body = (IF last.op = "Embed" THEN EmptyEmbedResponse
                        ELSE EmptyBatchEmbedResponse)
        /\ last.calls = 0

C1_Witness ==
    /\ last.adapter = "grpc" /\ last.op = "Embed" /\ last.text = ""
    /\ grpcCount[<<"Embed", "INVALID_ARGUMENT">>] = 1
    /\ grpcCount[<<"EmbedBatch", "INVALID_ARGUMENT">>] = 1

\* C2: a gRPC Embed or EmbedBatch with non-empty input ends INTERNAL, with the
\* failure's message as details and a default response, when the model call
\* (or, after it, the construction of the response) raises, and OK with the
\* embedding(s), the dimension and the inference time when nothing raises; it
\* ends with no other status.
C2_InternalOrOk ==
    (last.adapter = "grpc" /\ (IsEmbed(last) \/ IsBatch(last)) /\ ~EmptyInput(last)) =>
        /\ last.status \in {"OK", "INTERNAL"}
        /\ last.outcome # "ok" =>
              /\ last.status = "INTERNAL"
              /\ last.details = last.outcome
              /\ last.body = (IF last.op = "Embed" THEN EmptyEmbedResponse
                              ELSE EmptyBatchEmbedResponse)
        /\ last.build # "ok" =>
              /\ last.status = "INTERNAL"
              /\ last.details = last.build
              /\ last.body = (IF last.op = "Embed" THEN EmptyEmbedResponse
                              ELSE EmptyBatchEmbedResponse)
        /\ (last.outcome = "ok" /\ last.build = "ok") =>
              /\ last.status = "OK"
              /\ last.body.dimension = Dim
              /\ last.body.inference_time_ms \in Durations
              /\ IF last.op = "Embed"
                 THEN last.body.embedding = Encode(last.text)
                 ELSE /\ Len(last.body.embeddings) = Len(last.texts)
                      /\ \A i \in 1..Len(last.texts) :
                            last.body.embeddings[i].values = Encode(last.texts[i])

C2_Witness ==
    /\ last.adapter = "grpc" /\ last.op = "EmbedBatch" /\ Len(last.texts) = 2
    /\ last.outcome # "ok"
    /\ grpcCount[<<"Embed", "OK">>] = 1

\* C3 as the specification states it: a REST POST /embed with empty text, and a
\* POST /embed/batch with an empty list, is answered 500 with an error body.
C3_EmptyInput500 ==
    (last.adapter = "rest" /\ EmptyInput(last)) =>
        /\ last.status = "500"
        /\ "detail" \in DOMAIN last.body

\* C3 as the code has it: the request model rejects the body, the answer is 422
\* with an error body, and the handler is not entered: no model call is made.
C3_EmptyInput422 ==
    (last.adapter = "rest" /\ EmptyInput(last)) =>
        /\ last.status = "422"
        /\ "detail" \in DOMAIN last.body
        /\ last.calls = 0

C3_Witness ==
    /\ last.adapter = "rest" /\ last.op = "/embed/batch" /\ last.texts = << >>
    /\ answered["422"] = 1

\* C4: a GraphQL embed with empty text, and an embedBatch with an empty list,
\* fails: an entry in errors, no data, HTTP 200, and no model call.
C4_EmptyInputGraphqlError ==
    (last.adapter = "graphql" /\ EmptyInput(last)) =>
        /\ last.errors # << >>
        /\ last.body = NoData
        /\ last.status = "200"
        /\ last.calls = 0

C4_Witness ==
    last.adapter = "graphql" /\ last.op = "embedBatch" /\ last.texts = << >>

\* the counter of POST /embed under a status, live and as /metrics last exported it
EmbedCounter(count, status) == count[<<"POST", "/embed", status>>]
Exported == last.adapter = "rest" /\ last.op = "/metrics"

\* C5: with N POST /embed calls succeeded and M failed, the counter for 200 is
\* N and the counter for 500 is M, live and in the snapshot /metrics exports.
C5_CountersMatchOutcomes ==
    /\ EmbedCounter(restCount, "200") = answered["200"]
    /\ EmbedCounter(restCount, "500") = answered["422"] + answered["500"]
    /\ Exported =>
          /\ EmbedCounter(last.body.requests_total, "200") = answered["200"]
          /\ EmbedCounter(last.body.requests_total, "500")
                = answered["422"] + answered["500"]

\* C6: a successful batch with a non-empty list, in any of the three adapters,
\* has count = number of vectors returned = number of texts sent.
C6_CountIsBatchSize ==
    (IsBatch(last) /\ Succeeded(last) /\ last.texts # << >>) =>
        /\ last.body.count = Len(last.body.embeddings)
        /\ last.body.count = Len(last.texts)

C6_Witness ==
    /\ IsBatch(last) /\ Succeeded(last) /\ Len(last.texts) = 2
    /\ last.adapter = "graphql"

\* C7: in a successful batch the i-th vector returned is the embedding of the
\* i-th text sent.
C7_OrderPreserved ==
    (IsBatch(last) /\ Succeeded(last)) =>
        \A i \in 1..Len(last.texts) :
            /\ i \in DOMAIN Vectors(last)
            /\ Vectors(last)[i] = Encode(last.texts[i])

C7_Witness ==
    /\ IsBatch(last) /\ Succeeded(last) /\ last.adapter = "rest"
    /\ last.texts = <<"b", "a">>

\* C8: for a non-empty text the three adapters return the same vector, the one
\* the model's embed gives for that text.
C8_SameVector ==
    (IsEmbed(last) /\ Succeeded(last) /\ last.text # "") =>
        /\ last.body.embedding = embed(last.text, "ok").value
        /\ \A ms \in Durations :
              /\ Embed(last.text, "ok", "ok", ms).response.embedding = last.body.embedding
              /\ PostEmbed(last.text, "ok", "ok", ms).body.embedding = last.body.embedding
              /\ Mutation_embed(last.text, "ok", "ok", ms).data.embedding = last.body.embedding

C8_Witness ==
    IsEmbed(last) /\ Succeeded(last) /\ last.text = "b" /\ last.adapter = "grpc"

\* C9: the health answers of the three adapters are status healthy, the same
\* model name and the same dimension, the one of the vectors the model
\* returns, at every point of the run.
C9_SameHealth ==
    IsHealth(last) =>
        /\ Succeeded(last)
        /\ last.body.status = "healthy"
        /\ last.body.model = model_name
        /\ last.body.embedding_dimension = Len(Encode("a"))
        /\ last.body = HealthCheck.response
        /\ last.body = health_check.body
        /\ last.body = Query_health.data

C9_Witness ==
    /\ IsHealth(last) /\ last.adapter = "graphql"
    /\ grpcCount[<<"HealthCheck", "OK">>] + restCount[<<"GET", "/health", "200">>] = 1

\* a direct call of embed or embed_batch that has ended, on empty input
EmptyContractCall ==
    /\ last.adapter = "model" /\ last.status # "pending"
    /\ \/ last.op = "embed" /\ last.text = ""
       \/ last.op = "embed_batch" /\ last.texts = << >>

\* C10 as the specification states it: embed on the empty text and embed_batch
\* on the empty list fail with InvalidArgument and return no vector.
C10_ContractRejectsEmpty ==
    EmptyContractCall =>
        /\ last.status = "raised"
        /\ last.details = "InvalidArgument"

\* C10 as the code has it: embed and embed_batch make no check; on empty input
\* they return what the encoder returns (a vector for "", no vector for the
\* empty list) and raise only what the encoder raises.
C10_ContractPassesEmpty ==
    EmptyContractCall =>
        IF last.outcome = "ok"
        THEN /\ last.status = "returned"
             /\ last.body.value = (IF last.op = "embed" THEN Encode("") ELSE << >>)
        ELSE /\ last.status = "raised"
             /\ last.details = last.outcome

C10_Witness ==
    /\ last.adapter = "model" /\ last.op = "embed" /\ last.text = ""
    /\ last.status = "returned"

\* the sum of a counter over its labels, of a histogram's observations over its labels
RECURSIVE SumOver(_, _)
SumOver(f, S) ==
    IF S = {} THEN 0
    ELSE LET x == CHOOSE y \in S : TRUE IN f[x] + SumOver(f, S \ {x})
Total(f) == SumOver(f, DOMAIN f)

\* a step that handles one request of this adapter
Handles(adapter) == handled' = handled + 1 /\ last'.adapter = adapter

\* a step in which embed_text or embed_batch of the REST application is entered
RestHandlerRuns ==
    Handles("rest") /\ last'.op \in RestEndpoints /\ last'.status # "422"

\* C11: every gRPC RPC and every REST embed request, whatever its outcome,
\* records one request-count increment, one request-latency observation and one
\* inference-latency observation.
C11_EveryRequestRecorded ==
    [][/\ Handles("grpc") =>
            /\ Total(grpcCount') = Total(grpcCount) + 1
            /\ Total(grpcLatency') = Total(grpcLatency) + 1
            /\ grpcInference' = grpcInference + 1
       /\ (Handles("rest") /\ last'.op \in RestEndpoints) =>
            /\ Total(restCount') = Total(restCount) + 1
            /\ Total(restLatency') = Total(restLatency) + 1
            /\ restInference' = restInference + 1]_vars

\* C12: every GraphQL embed and embedBatch mutation that has called the shared
\* model increments the GraphQL request counter.
C12_MutationsCounted ==
    [][(Handles("graphql") /\ last'.op \in {"embed", "embedBatch"} /\ last'.calls >= 1)
          => Total(gqlCount') = Total(gqlCount) + 1]_vars

\* C16: no adapter retries: an embed or batch request calls embed/embed_batch at
\* most once, and when that one call raises the client is told of the failure,
\* with the error of that call.
C16_NoRetry ==
    (IsEmbed(last) \/ IsBatch(last)) =>
        /\ last.calls <= 1
        /\ (last.calls = 1 /\ last.outcome # "ok") =>
              /\ ~Succeeded(last)
              /\ CASE last.adapter = "grpc" -> last.details = last.outcome
                   [] last.adapter = "rest" -> last.body = [detail |-> last.outcome]
                   [] last.adapter = "graphql" -> last.errors = <<last.outcome>>

C16_Witness ==
    /\ last.adapter = "rest" /\ last.op = "/embed" /\ last.outcome # "ok"
    /\ last.calls = 1 /\ last.status = "500"

\* C17: each invocation of a gRPC handler or of a REST embed handler increments
\* exactly one status label of its request counter, the one of the status the
\* client gets.
C17_OneLabelPerInvocation ==
    [][/\ Handles("grpc") =>
            /\ Total(grpcCount') = Total(grpcCount) + 1
            /\ grpcCount'[<<last'.op, last'.status>>]
                  = grpcCount[<<last'.op, last'.status>>] + 1
       /\ RestHandlerRuns =>
            /\ Total(restCount') = Total(restCount) + 1
            /\ restCount'[<<"POST", last'.op, last'.status>>]
                  = restCount[<<"POST", last'.op, last'.status>>] + 1]_vars

\* C13: in the REST and GraphQL processes the model call does not block the
\* event loop: while a request's model call is in progress, a request that has
\* arrived and makes no model call (GET /health, GET /metrics) can be handled.
C13_EventLoopNotBlocked ==
    \A a \in LoopAdapters :
        (/\ loop[a].running # NoTask
         /\ loop[a].pending # << >>
         /\ ~ReachesModel(a, Head(loop[a].pending)))
            => ENABLED LoopServeOn(a)

\* C14: in each process the model is loaded exactly once and before any of the
\* process's listeners serves: a process with an open listener (the RPC port,
\* the metrics port of the gRPC process, an HTTP port) has made its one load,
\* and a request is answered only by a process that has.
C14_LoadedBeforeServing ==
    /\ \A p \in Processes :
          /\ boot[p].loads <= 1
          /\ boot[p].open # {} => boot[p].loads = 1
    /\ last.adapter \in Processes => boot[last.adapter].loads = 1

\* the request counters of one gRPC method, summed over the status labels
MethodTotal(m) == SumOver(grpcCount, {m} \X GrpcStatus)

\* increments made so far by the RPCs of a method that are still running
RunningIncs(m) ==
    SumOver([w \in Workers |-> IF pool.workers[w].op = m THEN pool.workers[w].incs ELSE 0],
            Workers)

\* C15: under any interleaving of RPCs on the worker pool no increment is lost
\* and no counter decreases: with K RPCs of a method completed, the method's
\* counters sum to at least K, and to exactly K plus the increments of RPCs
\* still running plus the second increments of RPCs that made two.
C15_NoLostIncrement ==
    /\ [](\A m \in GrpcMethods :
            /\ MethodTotal(m) >= pool.completed[m]
            /\ MethodTotal(m) = pool.completed[m] + pool.extra[m] + RunningIncs(m))
    /\ [][\A l \in GrpcLabels : grpcCount'[l] >= grpcCount[l]]_vars

C15_Witness ==
    /\ pool.overlapped
    /\ pool.completed["Embed"] = 2
    /\ pool.extra["Embed"] = 0
    /\ MethodTotal("Embed") = 2

====
